---- MODULE Spec2Model ----
(***************************************************************************)
(* permit-core: roles, groups, permissions and the AccessControl facade.   *)
(*                                                                         *)
(* Objects are named by strings (a Role or Group by its code) and          *)
(* Permission objects by their index in perms, the order of construction.  *)
(* A RegExp is represented by the set of strings of the request universe   *)
(* that RegExp.test accepts when the search starts at index 0. A RegExp    *)
(* without the g/y flags keeps no state between calls of test(); one with  *)
(* the g or y flag carries its lastIndex. The strings tested are one       *)
(* character long and no pattern matches the empty string, so lastIndex is *)
(* 0 or 1 and a test that starts at index 1 fails.                         *)
(***************************************************************************)
EXTENDS Integers, Sequences, FiniteSets, TLC

VARIABLES
    perms,       \* Permission objects in construction order: target, type, kind, rules,
                 \* middlewares
    rolePerms,   \* Role.permissions
    groupPerms,  \* Group.permissions
    roleGroup,   \* Role.group (NoGroup when undefined)
    groupRoles,  \* Group.roles
    acRoles,     \* AccessControl.roles
    res          \* what the last call returned / which callbacks it invoked

vars == <<perms, rolePerms, groupPerms, roleGroup, groupRoles, acRoles, res>>

-----------------------------------------------------------------------------
(* Bounds of the model *)

MaxPerms == 3      \* Permission objects constructed in a behaviour
MaxRules == 3      \* rules a Permission can grow to by addRule

-----------------------------------------------------------------------------
(* The universe of objects *)

Roles == {"R1", "R2"}
Groups == {"G1", "G2", "G3"}
NoGroup == "none"

\* new Group(code, inheritFrom): the parent is fixed at construction
InheritFrom ==
    [g \in Groups |-> IF g = "G3" THEN "G2" ELSE IF g = "G2" THEN "G1" ELSE NoGroup]

IsRole(t) == t \in Roles
IsGroup(t) == t \in Groups

\* a string pattern and a RegExp pattern
Str(s) == [re |-> FALSE, str |-> s, lang |-> {}]
Re(set) == [re |-> TRUE, str |-> "", lang |-> set]

\* a RegExp with the g (or y) flag, as constructed: lastIndex is 0
ReG(set) == [re |-> TRUE, str |-> "", lang |-> set, lastIndex |-> 0]

\* the RegExp has the g or y flag: test() reads and writes lastIndex
IsGlobal(pattern) == "lastIndex" \in DOMAIN pattern

\* RegExp.prototype.test: the value returned
RegExpTest(pattern, s) ==
    IF IsGlobal(pattern) THEN pattern.lastIndex = 0 /\ s \in pattern.lang
    ELSE s \in pattern.lang

\* RegExp.prototype.test: the RegExp object after the call (lastIndex is set to the end of
\* the match, or to 0 when there is none)
RegExpAfterTest(pattern, s) ==
    IF IsGlobal(pattern)
    THEN [pattern EXCEPT !.lastIndex = IF RegExpTest(pattern, s) THEN 1 ELSE 0]
    ELSE pattern

\* string[] and RegExp values of the list field of a list rule
Arr(seq) == [re |-> FALSE, arr |-> seq, lang |-> {}]
ReList(set) == [re |-> TRUE, arr |-> <<>>, lang |-> set]

Range(s) == {s[i] : i \in 1..Len(s)}

\* Array.prototype.includes
Includes(seq, x) == \E i \in 1..Len(seq) : seq[i] = x

\* Array.prototype.filter on the permissions of one type
RECURSIVE FilterByType(_, _)
FilterByType(ids, type) ==
    IF ids = <<>> THEN <<>>
    ELSE IF perms[Head(ids)].type = type
         THEN <<Head(ids)>> \o FilterByType(Tail(ids), type)
         ELSE FilterByType(Tail(ids), type)

-----------------------------------------------------------------------------
(* PermissionMessage; a message text is the tuple of its fixed and interpolated parts *)

Undefined == [status |-> "undefined", message |-> <<>>, target |-> ""]

PermissionMessage(status, message, target, action) ==
    [status |-> status, message |-> message, target |-> target, action |-> action]

MsgTypeMismatch == <<"action type doesn't match the permission type">>
MsgRouteDenied == <<"route access is not allowed">>
MsgComponentDenied(action) ==
    <<"action", action.parameters.action, "are not allowed to perform in this component">>
MsgListDenied(action) ==
    <<"No access permission for", action.type, action.parameters.identifier>>
MsgRoleNotFound == <<"Role not found.">>
MsgNoPermissions == <<"No matching permissions found.">>

-----------------------------------------------------------------------------
(* Group and Role queries *)

\* the optional type argument left out
NoType == ""

\* Group.getPermissions that ignores the type
GroupGetPermissionsNoFilter(g, type) == groupPerms[g]

\* Group.getPermissions(type)
GroupGetPermissions(g, type) ==
    IF type # NoType THEN FilterByType(groupPerms[g], type) ELSE groupPerms[g]

\* Role.getPermissions without the filter on the type
RoleGetPermissionsAll(r, type) ==
    LET rolePermissions == rolePerms[r]
        groupPermissions == IF roleGroup[r] # NoGroup THEN groupPerms[roleGroup[r]] ELSE <<>>
    IN groupPermissions \o rolePermissions

\* Role.getPermissions(type)
RoleGetPermissions(r, type) ==
    LET rolePermissions == IF type # NoType THEN FilterByType(rolePerms[r], type)
                           ELSE rolePerms[r]
        groupPermissions == IF roleGroup[r] # NoGroup
                            THEN GroupGetPermissions(roleGroup[r], type)
                            ELSE <<>>
    IN groupPermissions \o rolePermissions

\* Array.prototype.flat over the rule lists of a list of permissions
RECURSIVE Flat(_)
Flat(lists) == IF lists = <<>> THEN <<>> ELSE Head(lists) \o Flat(Tail(lists))

\* Permission.getRules that returns this.rules only
GetRulesOwn(p) == perms[p].rules

\* Permission.getRules: inherited rules, then the permission's own
RECURSIVE GetRules(_)
GetRules(p) ==
    LET target == perms[p].target
        type == perms[p].type
    IN IF IsRole(target) /\ roleGroup[target] # NoGroup
       THEN LET ps == GroupGetPermissions(roleGroup[target], type)
            IN Flat([i \in 1..Len(ps) |-> GetRules(ps[i])]) \o perms[p].rules
       ELSE IF IsGroup(target) /\ InheritFrom[target] # NoGroup
       THEN LET ps == GroupGetPermissions(InheritFrom[target], type)
            IN Flat([i \in 1..Len(ps) |-> GetRules(ps[i])]) \o perms[p].rules
       ELSE perms[p].rules

-----------------------------------------------------------------------------
(* RouteAccessPermission *)

\* The middlewares of a navigation permission are functions of the caller. "m1" and "m2"
\* only observe their arguments; "grant" calls permission.addRule({route: <the requested
\* route>}) on the permission it is given.
Middlewares == {"m1", "m2", "grant"}

\* one invocation middleware(this, action)
MiddlewareCall(middleware, p, action) ==
    [middleware |-> middleware, permission |-> p, action |-> action]

\* this.middlewares.forEach(middleware => middleware(this, action)): the invocations made
\* by validate, none when the type check returns first
RouteMiddlewareCalls(p, action) ==
    IF action.type # perms[p].type THEN <<>>
    ELSE [i \in 1..Len(perms[p].middlewares) |->
             MiddlewareCall(perms[p].middlewares[i], p, action)]

\* this.rules after the loop of getRulesByAction called rule.route.test(path) on every
\* rule whose route is a RegExp
RouteRulesAfterTests(rules, path) ==
    [i \in 1..Len(rules) |->
        IF rules[i].route.re
        THEN [rules[i] EXCEPT !.route = RegExpAfterTest(@, path)]
        ELSE rules[i]]

\* this.rules after getRulesByAction and the middlewares of validate ran
RouteRulesAfterMiddlewares(p, action) ==
    IF action.type # perms[p].type THEN perms[p].rules
    ELSE LET grants == SelectSeq(perms[p].middlewares, LAMBDA m : m = "grant")
         IN RouteRulesAfterTests(perms[p].rules, action.parameters.route) \o
            [i \in 1..Len(grants) |->
                [route |-> Str(action.parameters.route), exclude |-> FALSE]]

\* the test of one rule without the RegExp branch
RouteRuleMatchesStringOnly(rule, path) == ~rule.route.re /\ rule.route.str = path

\* the test of one rule in RouteAccessPermission.getRulesByAction
RouteRuleMatches(rule, path) ==
    IF rule.route.re /\ RegExpTest(rule.route, path) THEN TRUE
    ELSE ~rule.route.re /\ rule.route.str = path

\* getRulesByAction with an exclude rule that is skipped without emptying validRules
RECURSIVE RouteGetRulesByActionNoReset(_, _, _)
RouteGetRulesByActionNoReset(rules, path, validRules) ==
    IF rules = <<>> THEN validRules
    ELSE LET rule == Head(rules) IN
         IF RouteRuleMatches(rule, path) /\ ~rule.exclude
         THEN RouteGetRulesByActionNoReset(Tail(rules), path, Append(validRules, rule))
         ELSE RouteGetRulesByActionNoReset(Tail(rules), path, validRules)

\* RouteAccessPermission.getRulesByAction: the loop over this.rules
RECURSIVE RouteGetRulesByAction(_, _, _)
RouteGetRulesByAction(rules, path, validRules) ==
    IF rules = <<>> THEN validRules
    ELSE LET rule == Head(rules) IN
         IF RouteRuleMatches(rule, path)
         THEN IF rule.exclude
              THEN RouteGetRulesByAction(Tail(rules), path, <<>>)
              ELSE RouteGetRulesByAction(Tail(rules), path, Append(validRules, rule))
         ELSE RouteGetRulesByAction(Tail(rules), path, validRules)

\* RouteAccessPermission.validate with the rules selected after the middlewares ran
RouteValidateAfterMiddlewares(p, action) ==
    IF action.type # perms[p].type
    THEN PermissionMessage("failed", MsgTypeMismatch, perms[p].target, action)
    ELSE LET matchedRules == RouteGetRulesByAction(RouteRulesAfterMiddlewares(p, action),
                                                   action.parameters.route, <<>>)
         IN IF Len(matchedRules) = 0
            THEN PermissionMessage("failed", MsgRouteDenied, perms[p].target, action)
            ELSE Undefined

\* RouteAccessPermission.validate
RouteValidate(p, action) ==
    IF action.type # perms[p].type
    THEN PermissionMessage("failed", MsgTypeMismatch, perms[p].target, action)
    ELSE LET matchedRules == RouteGetRulesByAction(perms[p].rules, action.parameters.route, <<>>)
         IN IF Len(matchedRules) = 0
            THEN PermissionMessage("failed", MsgRouteDenied, perms[p].target, action)
            ELSE Undefined

-----------------------------------------------------------------------------
(* ComponentAccessPermission *)

\* the identifier test of one rule in ComponentAccessPermission.getRulesByAction
ComponentRuleMatches(rule, accessIdentifier) ==
    IF rule.identifier.re /\ RegExpTest(rule.identifier, accessIdentifier) THEN TRUE
    ELSE ~rule.identifier.re /\ rule.identifier.str = accessIdentifier

\* ComponentAccessPermission.getRulesByAction where an exclude rule on the identifier
\* resets the valid rules whatever its actions are
RECURSIVE ComponentGetRulesByActionAnyAction(_, _, _, _)
ComponentGetRulesByActionAnyAction(rules, accessIdentifier, accessAction, validRules) ==
    IF rules = <<>> THEN validRules
    ELSE LET rule == Head(rules) IN
         IF ComponentRuleMatches(rule, accessIdentifier) /\ rule.exclude
         THEN ComponentGetRulesByActionAnyAction(Tail(rules), accessIdentifier, accessAction, <<>>)
         ELSE IF ComponentRuleMatches(rule, accessIdentifier)
                 /\ Includes(rule.actions, accessAction)
         THEN ComponentGetRulesByActionAnyAction(Tail(rules), accessIdentifier, accessAction,
                                                 Append(validRules, rule))
         ELSE ComponentGetRulesByActionAnyAction(Tail(rules), accessIdentifier, accessAction,
                                                 validRules)

\* ComponentAccessPermission.getRulesByAction
RECURSIVE ComponentGetRulesByAction(_, _, _, _)
ComponentGetRulesByAction(rules, accessIdentifier, accessAction, validRules) ==
    IF rules = <<>> THEN validRules
    ELSE LET rule == Head(rules) IN
         IF ComponentRuleMatches(rule, accessIdentifier) /\ Includes(rule.actions, accessAction)
         THEN IF rule.exclude
              THEN ComponentGetRulesByAction(Tail(rules), accessIdentifier, accessAction, <<>>)
              ELSE ComponentGetRulesByAction(Tail(rules), accessIdentifier, accessAction,
                                             Append(validRules, rule))
         ELSE ComponentGetRulesByAction(Tail(rules), accessIdentifier, accessAction, validRules)

\* ComponentAccessPermission.validate
ComponentValidate(p, action) ==
    IF action.type # perms[p].type
    THEN PermissionMessage("failed", MsgTypeMismatch, perms[p].target, action)
    ELSE LET matchedRules == ComponentGetRulesByAction(perms[p].rules,
                                 action.parameters.identifier, action.parameters.action, <<>>)
         IN IF Len(matchedRules) = 0
            THEN PermissionMessage("failed", MsgComponentDenied(action), perms[p].target, action)
            ELSE Undefined

-----------------------------------------------------------------------------
(* utilities/array-utils *)

RECURSIVE SetOrder(_, _)
\* Array.from(new Set(seq)): the first occurrence of every element, in order
SetOrder(seq, seen) ==
    IF seq = <<>> THEN seen
    ELSE IF Includes(seen, Head(seq))
         THEN SetOrder(Tail(seq), seen)
         ELSE SetOrder(Tail(seq), Append(seen, Head(seq)))

\* mergeArrays
mergeArrays(arr1, arr2) == SetOrder(arr1 \o arr2, <<>>)

\* findSharedMembers that keeps the members of the second array only
findSharedMembersSecond(arr1, arr2) == arr2

\* findSharedMembers
findSharedMembers(arr1, arr2) ==
    LET set2 == Range(arr2) IN SelectSeq(arr1, LAMBDA element : element \in set2)

-----------------------------------------------------------------------------
(* ListAccessPermission (menu, dropdown, list) *)

\* the identifier test of one rule in ListAccessPermission.getRulesByAction
ListRuleMatches(rule, accessIdentifier) ==
    IF rule.identifier.re /\ RegExpTest(rule.identifier, accessIdentifier) THEN TRUE
    ELSE ~rule.identifier.re /\ rule.identifier.str = accessIdentifier

\* ListAccessPermission.getRulesByAction that leaves the exclude rules out
ListGetRulesByActionAllowOnly(p, action) ==
    SelectSeq(perms[p].rules,
              LAMBDA rule : ~rule.exclude /\ ListRuleMatches(rule, action.parameters.identifier))

\* ListAccessPermission.getRulesByAction
ListGetRulesByAction(p, action) ==
    SelectSeq(perms[p].rules, LAMBDA rule : ListRuleMatches(rule, action.parameters.identifier))

\* the test of a requested item against rule.list
ListItemMatches(ruleList, requestList) ==
    \/ ruleList.re /\ RegExpTest(ruleList, requestList)
    \/ ~ruleList.re /\ Includes(ruleList.arr, requestList)

\* an exclude rule that empties the accumulated list instead of filtering it
ListItemKeptReset(ruleList, item) == FALSE

\* the filter applied to the accumulated list by an exclude rule
ListItemKept(ruleList, item) ==
    \/ ruleList.re /\ ~RegExpTest(ruleList, item)
    \/ ~ruleList.re /\ ~Includes(ruleList.arr, item)

\* requestedList.forEach(...) that pushes the matching items whatever rule.exclude is
ListForEachRequestNoExclude(rule, requestedList, accessibleList) ==
    accessibleList
    \o SelectSeq(requestedList, LAMBDA requestList : ListItemMatches(rule.list, requestList))

\* requestedList.forEach(...) for one rule
RECURSIVE ListForEachRequest(_, _, _)
ListForEachRequest(rule, requestedList, accessibleList) ==
    IF requestedList = <<>> THEN accessibleList
    ELSE LET requestList == Head(requestedList) IN
         IF ListItemMatches(rule.list, requestList)
         THEN IF ~rule.exclude
              THEN ListForEachRequest(rule, Tail(requestedList),
                                      Append(accessibleList, requestList))
              ELSE ListForEachRequest(rule, Tail(requestedList),
                       SelectSeq(accessibleList, LAMBDA item : ListItemKept(rule.list, item)))
         ELSE ListForEachRequest(rule, Tail(requestedList), accessibleList)

\* rules.forEach(...)
RECURSIVE ListForEachRule(_, _, _)
ListForEachRule(rules, requestedList, accessibleList) ==
    IF rules = <<>> THEN accessibleList
    ELSE ListForEachRule(Tail(rules), requestedList,
                         ListForEachRequest(Head(rules), requestedList, accessibleList))

RECURSIVE GetAccessibleList(_, _)
RECURSIVE MergeGroupLists(_, _, _)

\* listAccessPermissions.forEach(permission => accessibleList = mergeArrays(...))
MergeGroupLists(ps, action, accessibleList) ==
    IF ps = <<>> THEN accessibleList
    ELSE MergeGroupLists(Tail(ps), action,
                         mergeArrays(accessibleList, GetAccessibleList(Head(ps), action)))

\* ListAccessPermission.getAccessibleList
GetAccessibleList(p, action) ==
    LET target == perms[p].target
        requestedList == action.parameters.list
        own == ListForEachRule(ListGetRulesByAction(p, action), requestedList, <<>>)
    IN IF IsGroup(target) THEN own
       ELSE LET group == roleGroup[target] IN
            IF group # NoGroup
            THEN findSharedMembers(
                     MergeGroupLists(GroupGetPermissions(group, action.type), action, <<>>),
                     own)
            ELSE own

\* ListAccessPermission.validate without the check of the action's type
ListValidateNoTypeCheck(p, action) ==
    IF Len(ListGetRulesByAction(p, action)) = 0
    THEN PermissionMessage("failed", MsgListDenied(action), perms[p].target, action)
    ELSE Undefined

\* ListAccessPermission.validate
ListValidate(p, action) ==
    IF action.type # perms[p].type
    THEN PermissionMessage("failed", MsgTypeMismatch, perms[p].target, action)
    ELSE IF Len(ListGetRulesByAction(p, action)) = 0
         THEN PermissionMessage("failed", MsgListDenied(action), perms[p].target, action)
         ELSE Undefined

\* the local matchedRules of validate (empty when the type check returns first)
MatchedRules(p, action) ==
    IF action.type # perms[p].type THEN <<>>
    ELSE IF perms[p].kind = "route"
         THEN RouteGetRulesByAction(perms[p].rules, action.parameters.route, <<>>)
    ELSE IF perms[p].kind = "component"
         THEN ComponentGetRulesByAction(perms[p].rules, action.parameters.identifier,
                                        action.parameters.action, <<>>)
    ELSE ListGetRulesByAction(p, action)

\* validate run on the newest permission of the type of p in the system, whoever holds it
ValidateNewestOfType(p, action) ==
    LET S == {i \in 1..Len(perms) : perms[i].type = perms[p].type}
        q == CHOOSE i \in S : \A j \in S : j <= i
    IN IF perms[q].kind = "route" THEN RouteValidate(q, action)
       ELSE IF perms[q].kind = "component" THEN ComponentValidate(q, action)
       ELSE ListValidate(q, action)

\* Permission.validate, dispatched on the class of the permission
Validate(p, action) ==
    IF perms[p].kind = "route" THEN RouteValidate(p, action)
    ELSE IF perms[p].kind = "component" THEN ComponentValidate(p, action)
    ELSE ListValidate(p, action)

\* the middleware invocations of permission.validate(action)
MiddlewareCalls(p, action) ==
    IF perms[p].kind = "route" THEN RouteMiddlewareCalls(p, action) ELSE <<>>

\* the Permission objects after permission.validate(action)
PermsAfterValidate(p, action) ==
    IF perms[p].kind = "route"
    THEN [perms EXCEPT ![p].rules = RouteRulesAfterMiddlewares(p, action)]
    ELSE perms

\* the number of rules the loop of getRulesByAction tested in permission.validate(action)
RulesEvaluated(p, action) ==
    IF action.type # perms[p].type THEN 0 ELSE Len(perms[p].rules)

-----------------------------------------------------------------------------
(* State after construction of the roles, the groups and the AccessControl *)

NoRes == [op |-> "none"]

\* no call is in progress: the caller has taken the result of the last one
Idle == res = NoRes

Init ==
    /\ perms = <<>>
    /\ rolePerms = [r \in Roles |-> <<>>]
    /\ groupPerms = [g \in Groups |-> <<>>]
    /\ roleGroup = [r \in Roles |-> NoGroup]
    /\ groupRoles = [g \in Groups |-> <<>>]
    /\ acRoles = <<>>
    /\ res = NoRes

-----------------------------------------------------------------------------
(* Setup operations *)

\* Role.assignPermission: the permission list of role r after assigning p
RoleAssignPermission(r, p) ==
    IF ~Includes(rolePerms[r], p)
    THEN IF roleGroup[r] # NoGroup
         THEN IF ~Includes(groupPerms[roleGroup[r]], p)
              THEN Append(rolePerms[r], p)
              ELSE rolePerms[r]
         ELSE Append(rolePerms[r], p)
    ELSE rolePerms[r]

\* Group.assignPermission: the permission list of group g after assigning p
GroupAssignPermission(g, p) ==
    IF ~Includes(groupPerms[g], p) THEN Append(groupPerms[g], p) ELSE groupPerms[g]

\* new RouteAccessPermission / ComponentAccessPermission / ListAccessPermission(target, rules):
\* the Permission constructor registers the object with its target and keeps the rules
NewPermission(target, type, kind, rules, middlewares) ==
    /\ Idle
    /\ Len(perms) < MaxPerms
    /\ LET p == Len(perms) + 1 IN
         /\ perms' = Append(perms, [target |-> target, type |-> type, kind |-> kind,
                                    rules |-> rules, middlewares |-> middlewares])
         /\ IF IsRole(target)
            THEN /\ rolePerms' = [rolePerms EXCEPT ![target] = RoleAssignPermission(target, p)]
                 /\ UNCHANGED groupPerms
            ELSE /\ groupPerms' = [groupPerms EXCEPT ![target] = GroupAssignPermission(target, p)]
                 /\ UNCHANGED rolePerms
    /\ res' = NoRes
    /\ UNCHANGED <<roleGroup, groupRoles, acRoles>>

\* Permission.addRule
AddRule(p, rule) ==
    /\ Idle
    /\ p \in 1..Len(perms)
    /\ Len(perms[p].rules) < MaxRules
    /\ perms' = [perms EXCEPT ![p].rules = Append(@, rule)]
    /\ res' = NoRes
    /\ UNCHANGED <<rolePerms, groupPerms, roleGroup, groupRoles, acRoles>>

\* Group.assignRole without the call of excludeRole on the role's old group
GroupAssignRoleNoExclude(g, r) ==
    /\ Idle
    /\ IF ~Includes(groupRoles[g], r)
       THEN /\ groupRoles' = [groupRoles EXCEPT ![g] = Append(@, r)]
            /\ roleGroup' = [roleGroup EXCEPT ![r] = g]
       ELSE /\ groupRoles' = groupRoles
            /\ roleGroup' = [roleGroup EXCEPT ![r] = NoGroup]
    /\ res' = NoRes
    /\ UNCHANGED <<perms, rolePerms, groupPerms, acRoles>>

\* Group.assignRole, with Group.excludeRole, Role.resetGroup and Role.assignGroup
GroupAssignRole(g, r) ==
    LET group == roleGroup[r]
        roles1 == IF group # NoGroup
                  THEN [groupRoles EXCEPT ![group] = SelectSeq(@, LAMBDA x : x # r)]
                  ELSE groupRoles
    IN /\ Idle
       /\ IF ~Includes(roles1[g], r)
          THEN /\ groupRoles' = [roles1 EXCEPT ![g] = Append(@, r)]
               /\ roleGroup' = [roleGroup EXCEPT ![r] = g]
          ELSE /\ groupRoles' = roles1
               /\ roleGroup' = [roleGroup EXCEPT ![r] = NoGroup]
       /\ res' = NoRes
       /\ UNCHANGED <<perms, rolePerms, groupPerms, acRoles>>

\* Role.assignGroup that replaces the group the role already has
RoleAssignGroupOverwrite(r, g) ==
    /\ Idle
    /\ roleGroup' = [roleGroup EXCEPT ![r] = g]
    /\ res' = NoRes
    /\ UNCHANGED <<perms, rolePerms, groupPerms, groupRoles, acRoles>>

\* Role.assignGroup: throws when the role already has a group
RoleAssignGroup(r, g) ==
    /\ Idle
    /\ IF roleGroup[r] = NoGroup
       THEN /\ roleGroup' = [roleGroup EXCEPT ![r] = g]
            /\ res' = NoRes
       ELSE /\ UNCHANGED roleGroup
            /\ res' = [op |-> "assignGroup", thrown |-> TRUE, role |-> r, group |-> g,
                       message |-> <<"role", r, "has already assigned to another group:",
                                     roleGroup[r]>>]
    /\ UNCHANGED <<perms, rolePerms, groupPerms, groupRoles, acRoles>>

\* AccessControl.addRole
AddRole(r) ==
    /\ Idle
    /\ acRoles' = IF ~Includes(acRoles, r) THEN Append(acRoles, r) ELSE acRoles
    /\ res' = NoRes
    /\ UNCHANGED <<perms, rolePerms, groupPerms, roleGroup, groupRoles>>

-----------------------------------------------------------------------------
(* AccessControl.checkPermissions *)

\* getRoleByCode that finds every role, registered or not
GetRoleByCodeAny(roleCode) == roleCode

\* AccessControl.getRoleByCode: the first registered role with that code
GetRoleByCode(roleCode) ==
    LET found == SelectSeq(acRoles, LAMBDA role : role = roleCode)
    IN IF found = <<>> THEN NoGroup ELSE Head(found)

Call(cb, permission, message) == [cb |-> cb, permission |-> permission, message |-> message]

\* checkPermissions without the return after callbacks.onFailure of a failed validate
CheckResultNoReturn(action, hasOnFailure) ==
    LET role == GetRoleByCode(action.roleCode) IN
    IF role = NoGroup
    THEN [validated |-> <<>>,
          calls |-> IF hasOnFailure
                    THEN <<Call("onFailure", 0, PermissionMessage("failed", MsgRoleNotFound, "", action))>>
                    ELSE <<>>]
    ELSE LET matchingPermissions == RoleGetPermissions(role, action.type) IN
         IF Len(matchingPermissions) = 0
         THEN [validated |-> <<>>,
               calls |-> IF hasOnFailure
                         THEN <<Call("onFailure", 0,
                                     PermissionMessage("failed", MsgNoPermissions, role, action))>>
                         ELSE <<>>]
         ELSE LET permission == matchingPermissions[Len(matchingPermissions)]
                  result == Validate(permission, action)
              IN [validated |-> <<permission>>,
                  calls |-> (IF result.status = "failed" /\ hasOnFailure
                             THEN <<Call("onFailure", permission, result)>> ELSE <<>>)
                            \o <<Call("onSuccess", permission, Undefined)>>]

\* the callbacks invoked and the permissions validated by checkPermissions
CheckResult(action, hasOnFailure) ==
    LET role == GetRoleByCode(action.roleCode) IN
    IF role = NoGroup
    THEN [validated |-> <<>>,
          calls |-> IF hasOnFailure
                    THEN <<Call("onFailure", 0, PermissionMessage("failed", MsgRoleNotFound, "", action))>>
                    ELSE <<>>]
    ELSE LET matchingPermissions == RoleGetPermissions(role, action.type) IN
         IF Len(matchingPermissions) = 0
         THEN [validated |-> <<>>,
               calls |-> IF hasOnFailure
                         THEN <<Call("onFailure", 0,
                                     PermissionMessage("failed", MsgNoPermissions, role, action))>>
                         ELSE <<>>]
         ELSE LET permission == matchingPermissions[Len(matchingPermissions)]
                  result == Validate(permission, action)
              IN IF result.status = "failed"
                 THEN [validated |-> <<permission>>,
                       calls |-> IF hasOnFailure
                                 THEN <<Call("onFailure", permission, result)>>
                                 ELSE <<>>]
                 ELSE [validated |-> <<permission>>,
                       calls |-> <<Call("onSuccess", permission, Undefined)>>]

\* checkPermissions that falls through to onSuccess when a denial has no onFailure to call
CheckPermissionsFallThrough(action, hasOnFailure) ==
    /\ Idle
    /\ LET r == CheckResult(action, hasOnFailure) IN
         /\ \A i \in 1..Len(r.validated) :
                Len(PermsAfterValidate(r.validated[i], action)[r.validated[i]].rules) <= MaxRules
         /\ res' = [op |-> "check", action |-> action, hasOnFailure |-> hasOnFailure,
                    validated |-> r.validated,
                    calls |-> IF r.calls = <<>> THEN <<Call("onSuccess", 0, Undefined)>>
                              ELSE r.calls]
         /\ perms' = IF r.validated = <<>> THEN perms
                     ELSE PermsAfterValidate(r.validated[1], action)
    /\ UNCHANGED <<rolePerms, groupPerms, roleGroup, groupRoles, acRoles>>

CheckPermissions(action, hasOnFailure) ==
    /\ Idle
    /\ LET r == CheckResult(action, hasOnFailure) IN
         /\ \A i \in 1..Len(r.validated) :
                Len(PermsAfterValidate(r.validated[i], action)[r.validated[i]].rules) <= MaxRules
         /\ res' = [op |-> "check", action |-> action, hasOnFailure |-> hasOnFailure,
                    validated |-> r.validated, calls |-> r.calls]
         /\ perms' = IF r.validated = <<>> THEN perms
                     ELSE PermsAfterValidate(r.validated[1], action)
    /\ UNCHANGED <<rolePerms, groupPerms, roleGroup, groupRoles, acRoles>>

\* permission.validate(action) called directly
CallValidate(p, action) ==
    /\ Idle
    /\ p \in 1..Len(perms)
    /\ Len(PermsAfterValidate(p, action)[p].rules) <= MaxRules
    /\ res' = [op |-> "validate", perm |-> p, action |-> action,
               matchedRules |-> MatchedRules(p, action), result |-> Validate(p, action),
               evaluated |-> RulesEvaluated(p, action),
               middlewareCalls |-> MiddlewareCalls(p, action)]
    /\ perms' = PermsAfterValidate(p, action)
    /\ UNCHANGED <<rolePerms, groupPerms, roleGroup, groupRoles, acRoles>>

\* the permissions of which p.getRules() calls getRules
GetRulesCallees(p) ==
    LET target == perms[p].target
        type == perms[p].type
    IN IF IsRole(target) /\ roleGroup[target] # NoGroup
       THEN GroupGetPermissions(roleGroup[target], type)
       ELSE IF IsGroup(target) /\ InheritFrom[target] # NoGroup
       THEN GroupGetPermissions(InheritFrom[target], type)
       ELSE <<>>

\* p.getRules() reaches a getRules call of a permission whose getRules is on the call stack:
\* the calls repeat until the call stack is exhausted (RangeError)
RECURSIVE GetRulesOverflows(_, _)
GetRulesOverflows(p, onStack) ==
    \/ p \in onStack
    \/ \E q \in Range(GetRulesCallees(p)) : GetRulesOverflows(q, onStack \cup {p})

\* the permissions of which p.getAccessibleList(action) calls getAccessibleList
GetAccessibleListCallees(p, action) ==
    LET target == perms[p].target
    IN IF IsRole(target) /\ roleGroup[target] # NoGroup
       THEN GroupGetPermissions(roleGroup[target], action.type)
       ELSE <<>>

\* p.getAccessibleList(action) reaches a getAccessibleList call of a permission whose
\* getAccessibleList is on the call stack
RECURSIVE GetAccessibleListOverflows(_, _, _)
GetAccessibleListOverflows(p, action, onStack) ==
    \/ p \in onStack
    \/ \E q \in Range(GetAccessibleListCallees(p, action)) :
           GetAccessibleListOverflows(q, action, onStack \cup {p})

\* permission.getAccessibleList(action) called directly
CallGetAccessibleList(p, action) ==
    /\ Idle
    /\ p \in 1..Len(perms)
    /\ perms[p].kind = "list"
    /\ action.type = perms[p].type      \* the parameter type A of the permission class
    /\ res' = IF GetAccessibleListOverflows(p, action, {})
              THEN [op |-> "list", perm |-> p, action |-> action, list |-> <<>>,
                    overflow |-> TRUE]
              ELSE [op |-> "list", perm |-> p, action |-> action,
                    list |-> GetAccessibleList(p, action), overflow |-> FALSE]
    /\ UNCHANGED <<perms, rolePerms, groupPerms, roleGroup, groupRoles, acRoles>>

\* role.getPermissions(type) called directly
CallGetPermissions(r, type) ==
    /\ Idle
    /\ res' = [op |-> "permissions", role |-> r, type |-> type,
               list |-> RoleGetPermissions(r, type)]
    /\ UNCHANGED <<perms, rolePerms, groupPerms, roleGroup, groupRoles, acRoles>>

\* role.assignPermission(permission) called directly
AssignPermissionToRole(r, p) ==
    /\ Idle
    /\ p \in 1..Len(perms)
    /\ rolePerms' = [rolePerms EXCEPT ![r] = RoleAssignPermission(r, p)]
    /\ res' = NoRes
    /\ UNCHANGED <<perms, groupPerms, roleGroup, groupRoles, acRoles>>

\* group.assignPermission(permission) called directly
AssignPermissionToGroup(g, p) ==
    /\ Idle
    /\ p \in 1..Len(perms)
    /\ groupPerms' = [groupPerms EXCEPT ![g] = GroupAssignPermission(g, p)]
    /\ res' = NoRes
    /\ UNCHANGED <<perms, rolePerms, roleGroup, groupRoles, acRoles>>

\* permission.getRules() called directly
CallGetRules(p) ==
    /\ Idle
    /\ p \in 1..Len(perms)
    /\ res' = IF GetRulesOverflows(p, {})
              THEN [op |-> "rules", perm |-> p, rules |-> <<>>, overflow |-> TRUE]
              ELSE [op |-> "rules", perm |-> p, rules |-> GetRules(p), overflow |-> FALSE]
    /\ UNCHANGED <<perms, rolePerms, groupPerms, roleGroup, groupRoles, acRoles>>

\* the caller takes the result of the call; the next operation can start
Return ==
    /\ ~Idle
    /\ res' = NoRes
    /\ UNCHANGED <<perms, rolePerms, groupPerms, roleGroup, groupRoles, acRoles>>

-----------------------------------------------------------------------------
(* Access control over a role and its group: navigation and component permissions *)

SeqsUpTo(S, n) == UNION {[1..k -> S] : k \in 0..n}

ACTargets == {"R1", "G1"}

Allow(route) == [route |-> route, exclude |-> FALSE]
Exclude(route) == [route |-> route, exclude |-> TRUE]

\* the rule lists the navigation permissions are constructed with
ACRouteRuleLists == {<<>>, <<Allow(Str("a"))>>, <<Exclude(Str("a"))>>}

\* the rule lists the component permissions are constructed with
ACComponentRuleLists ==
    {<<>>} \cup {<<[identifier |-> Str("a"), actions |-> <<"view">>, exclude |-> x]>> : x \in BOOLEAN}

RouteAccessAction(roleCode, route) ==
    [roleCode |-> roleCode, type |-> "navigation", parameters |-> [route |-> route]]
ComponentAccessAction(roleCode, identifier, action) ==
    [roleCode |-> roleCode, type |-> "component",
     parameters |-> [identifier |-> identifier, action |-> action]]

ACActions ==
    {RouteAccessAction("R1", route) : route \in {"a", "b"}}
    \cup {ComponentAccessAction("R1", "a", action) : action \in {"view", "edit"}}

NewRoutePermission ==
    \E target \in ACTargets, rules \in ACRouteRuleLists :
        NewPermission(target, "navigation", "route", rules, <<>>)

NewComponentPermission ==
    \E target \in ACTargets, rules \in ACComponentRuleLists :
        NewPermission(target, "component", "component", rules, <<>>)

NextAC ==
    \/ NewRoutePermission
    \/ NewComponentPermission
    \/ GroupAssignRole("G1", "R1")
    \/ RoleAssignGroup("R1", "G1")
    \/ AddRole("R1")
    \/ \E action \in ACActions, hasOnFailure \in BOOLEAN : CheckPermissions(action, hasOnFailure)
    \/ \E p \in 1..Len(perms), action \in ACActions : CallValidate(p, action)
    \/ Return

Spec == Init /\ [][NextAC]_vars

-----------------------------------------------------------------------------
(* Properties of validate and checkPermissions over a role and its group *)

\* the rules of a single-identifier permission that apply to the request
RuleApplies(kind, rule, action) ==
    IF kind = "route" THEN RouteRuleMatches(rule, action.parameters.route)
    ELSE /\ ComponentRuleMatches(rule, action.parameters.identifier)
         /\ Includes(rule.actions, action.parameters.action)

\* the matched set of a rule list: the applying non-exclude rules after the last
\* applying exclude rule
LastExclude(kind, rules, action) ==
    LET idx == {i \in 1..Len(rules) : rules[i].exclude /\ RuleApplies(kind, rules[i], action)}
    IN IF idx = {} THEN 0 ELSE CHOOSE i \in idx : \A j \in idx : j <= i

MatchedAfterExclude(kind, rules, action) ==
    LET last == LastExclude(kind, rules, action)
        idx == {i \in 1..Len(rules) : i > last /\ RuleApplies(kind, rules[i], action)}
    IN idx

\* the permission denies the request by exclusion: a rule applies, and the last one is an exclude rule
DeniesByExclude(p, action) ==
    /\ perms[p].type = action.type
    /\ LastExclude(perms[p].kind, perms[p].rules, action) > 0
    /\ MatchedAfterExclude(perms[p].kind, perms[p].rules, action) = {}

\* C2: validate of a permission bound to a role with a group fails exactly when the
\* effective rule-set (the rules of the group's permissions of the type, then the
\* permission's own) leaves no matched rule
C2_ValidateUsesEffectiveRules ==
    (/\ res.op = "validate"
     /\ res.action.type = perms[res.perm].type
     /\ IsRole(perms[res.perm].target)
     /\ roleGroup[perms[res.perm].target] # NoGroup)
    => ((res.result.status = "failed")
        <=> (MatchedAfterExclude(perms[res.perm].kind, GetRules(res.perm), res.action) = {}))

\* the first permission of the list whose validate fails (0 when none does)
FirstFailing(ps, action) ==
    LET idx == {i \in 1..Len(ps) : Validate(ps[i], action).status = "failed"}
    IN IF idx = {} THEN 0 ELSE CHOOSE i \in idx : \A j \in idx : i <= j

\* C3: checkPermissions validates the role's permissions of the type in order, group's
\* first, and stops at the first failure, which it reports through onFailure
C3_ValidatesAllShortCircuit ==
    (/\ res.op = "check"
     /\ res.hasOnFailure
     /\ GetRoleByCode(res.action.roleCode) # NoGroup
     /\ RoleGetPermissions(res.action.roleCode, res.action.type) # <<>>)
    => LET ps == RoleGetPermissions(res.action.roleCode, res.action.type)
           k == FirstFailing(ps, res.action)
       IN IF k = 0
          THEN /\ res.validated = ps
               /\ Len(res.calls) = 1 /\ res.calls[1].cb = "onSuccess"
          ELSE /\ res.validated = SubSeq(ps, 1, k)
               /\ res.calls = <<Call("onFailure", ps[k], Validate(ps[k], res.action))>>

\* checkPermissions reported a denial: onSuccess was not invoked, onFailure was if supplied
Denied ==
    /\ \A i \in 1..Len(res.calls) : res.calls[i].cb # "onSuccess"
    /\ res.hasOnFailure => (Len(res.calls) = 1 /\ res.calls[1].cb = "onFailure")

\* C4: a navigation permission of the role's group with a rule excluding the route makes
\* checkPermissions deny, whatever the role's own permission allows
C4_GroupExcludeDenies ==
    (/\ res.op = "check"
     /\ res.action.type = "navigation"
     /\ GetRoleByCode(res.action.roleCode) # NoGroup
     /\ roleGroup[res.action.roleCode] # NoGroup
     /\ \E i \in 1..Len(groupPerms[roleGroup[res.action.roleCode]]) :
            DeniesByExclude(groupPerms[roleGroup[res.action.roleCode]][i], res.action))
    => Denied

\* C5: a navigation or component permission of the role that denies the request by an
\* exclude rule makes checkPermissions deny although the group's permission allows it
C5_RoleExcludeDenies ==
    (/\ res.op = "check"
     /\ GetRoleByCode(res.action.roleCode) # NoGroup
     /\ roleGroup[res.action.roleCode] # NoGroup
     /\ \E i \in 1..Len(rolePerms[res.action.roleCode]) :
            DeniesByExclude(rolePerms[res.action.roleCode][i], res.action)
     /\ \E i \in 1..Len(groupPerms[roleGroup[res.action.roleCode]]) :
            LET gp == groupPerms[roleGroup[res.action.roleCode]][i]
            IN perms[gp].type = res.action.type /\ Validate(gp, res.action).status # "failed")
    => Denied

-----------------------------------------------------------------------------
(* List permissions over a role, its group G2 and the group G1 that G2 inherits from *)

AllowList(id, list) == [identifier |-> id, list |-> list, exclude |-> FALSE]
ExcludeList(id, list) == [identifier |-> id, list |-> list, exclude |-> TRUE]

\* the rule lists the menu permissions are constructed with
MenuRuleLists ==
    { <<AllowList(Str("x"), Arr(<<"a", "b">>))>>,
      <<AllowList(Str("x"), Arr(<<"b", "c">>))>>,
      <<AllowList(Str("x"), Arr(<<"a">>))>>,
      <<AllowList(Str("x"), Arr(<<"b">>))>>,
      <<ExcludeList(Str("x"), Arr(<<"b">>))>> }

\* the rule lists the dropdown permissions are constructed with
DropdownRuleLists == { <<AllowList(Str("x"), Arr(<<"b", "c">>))>> }

ListAccessAction(roleCode, type, identifier, list) ==
    [roleCode |-> roleCode, type |-> type,
     parameters |-> [identifier |-> identifier, list |-> list]]

ListActions == {ListAccessAction("R1", type, "x", <<"a", "b", "c">>) : type \in {"menu", "dropdown"}}

\* the holders of list permissions: the role, its group G2 and G2's parent G1
ListTargets == {"R1", "G1", "G2"}

NewMenuPermission ==
    \E target \in ListTargets, rules \in MenuRuleLists :
        NewPermission(target, "menu", "list", rules, <<>>)

NewDropdownPermission ==
    \E target \in ListTargets, rules \in DropdownRuleLists :
        NewPermission(target, "dropdown", "list", rules, <<>>)

InitList == Init

NextList ==
    \/ NewMenuPermission
    \/ NewDropdownPermission
    \/ GroupAssignRole("G2", "R1")
    \/ \E p \in 1..Len(perms), action \in ListActions : CallGetAccessibleList(p, action)
    \/ Return

SpecList == InitList /\ [][NextList]_vars

\* the items a list permission grants by its own rules
OwnAccessibleList(p, action) ==
    ListForEachRule(ListGetRulesByAction(p, action), action.parameters.list, <<>>)

\* a group and the groups it inherits from
RECURSIVE GroupChain(_)
GroupChain(g) == IF g = NoGroup THEN {} ELSE {g} \cup GroupChain(InheritFrom[g])

\* getAccessibleList was called on a permission of a role that belongs to a group
ListOfGroupedRole ==
    /\ res.op = "list"
    /\ IsRole(perms[res.perm].target)
    /\ roleGroup[perms[res.perm].target] # NoGroup

\* C6: for a role in a group, the result holds exactly the items that are both in the
\* role-level list and in the union of the lists of the same-type permissions of the
\* group and of its ancestor groups
C6_IntersectionWithGroupChain ==
    ListOfGroupedRole
    => LET chain == GroupChain(roleGroup[perms[res.perm].target])
           typed == {q \in 1..Len(perms) :
                        /\ perms[q].type = res.action.type
                        /\ \E g \in chain : Includes(groupPerms[g], q)}
           groupLevel == UNION {Range(OwnAccessibleList(q, res.action)) : q \in typed}
       IN Range(res.list) = Range(OwnAccessibleList(res.perm, res.action)) \cap groupLevel

\* C7: the group allows b and c, the role's permission only excludes b: [a,b,c] gives [c]
C7_RoleExcludeSubtractsFromGroup ==
    (/\ ListOfGroupedRole
     /\ perms[res.perm].rules = <<ExcludeList(Str("x"), Arr(<<"b">>))>>
     /\ res.action.parameters.list = <<"a", "b", "c">>
     /\ LET g == roleGroup[perms[res.perm].target]
            ps == GroupGetPermissions(g, res.action.type)
        IN /\ Len(ps) = 1
           /\ perms[ps[1]].rules = <<AllowList(Str("x"), Arr(<<"b", "c">>))>>
           /\ \A h \in GroupChain(g) \ {g} : GroupGetPermissions(h, res.action.type) = <<>>)
    => res.list = <<"c">>

\* C8: for a role in a group that holds a permission of the type, the result is
\* accumulated over the group's rules followed by the role's own rules (role allows [a],
\* group allows [b]: [b, a])
C8_AccumulatesGroupThenRole ==
    (/\ ListOfGroupedRole
     /\ GroupGetPermissions(roleGroup[perms[res.perm].target], res.action.type) # <<>>)
    => res.list = ListForEachRule(
                      SelectSeq(GetRules(res.perm),
                                LAMBDA rule : ListRuleMatches(rule, res.action.parameters.identifier)),
                      res.action.parameters.list, <<>>)

\* a rule that grants the item for the identifier
Grants(rule, action, item) ==
    /\ ~rule.exclude
    /\ ListRuleMatches(rule, action.parameters.identifier)
    /\ ListItemMatches(rule.list, item)

-----------------------------------------------------------------------------
(* Rule evaluation of one navigation permission *)

NavRulesFull ==
    {[route |-> route, exclude |-> x] :
        route \in {Str("a"), Str("b"), Re({"a", "b"})}, x \in BOOLEAN}

RouteActions == {RouteAccessAction("R1", route) : route \in {"a", "b", "c"}}

\* one RouteAccessPermission without rules, bound to the role or to the group
InitRoute ==
    /\ \E target \in ACTargets :
         /\ perms = <<[target |-> target, type |-> "navigation", kind |-> "route", rules |-> <<>>,
                     middlewares |-> <<>>]>>
         /\ rolePerms = [r \in Roles |-> IF r = target THEN <<1>> ELSE <<>>]
         /\ groupPerms = [g \in Groups |-> IF g = target THEN <<1>> ELSE <<>>]
    /\ roleGroup = [r \in Roles |-> NoGroup]
    /\ groupRoles = [g \in Groups |-> <<>>]
    /\ acRoles = <<>>
    /\ res = NoRes

NextRoute ==
    \/ \E rule \in NavRulesFull : AddRule(1, rule)
    \/ \E action \in RouteActions : CallValidate(1, action)
    \/ Return

SpecRoute == InitRoute /\ [][NextRoute]_vars

\* the rules at the given indices, in declared order
RECURSIVE RulesAt(_, _, _)
RulesAt(rules, idx, i) ==
    IF i > Len(rules) THEN <<>>
    ELSE (IF i \in idx THEN <<rules[i]>> ELSE <<>>) \o RulesAt(rules, idx, i + 1)

\* C1: the matched set of a navigation permission is the non-exclude rules matching the
\* route that come after the last matching exclude rule, and validate fails iff it is empty
C1_RouteMatchedSet ==
    (res.op = "validate" /\ perms[res.perm].kind = "route" /\ res.action.type = "navigation")
    => LET rules == perms[res.perm].rules
           expected == RulesAt(rules, MatchedAfterExclude("route", rules, res.action), 1)
       IN /\ res.matchedRules = expected
          /\ (res.result.status = "failed") <=> (expected = <<>>)
          /\ (expected # <<>>) => (res.result = Undefined)

\* witness of C1: [allow, exclude, allow] on the route passes with the last rule matched
C1_Witness ==
    /\ res.op = "validate"
    /\ perms[res.perm].rules = <<Allow(Str("a")), Exclude(Str("a")), Allow(Str("a"))>>
    /\ res.action.parameters.route = "a"
    /\ res.matchedRules = <<Allow(Str("a"))>>
    /\ res.result = Undefined

-----------------------------------------------------------------------------
(* Item accumulation of one list permission bound to a group or to a role without group *)

ListRulesFull ==
    {[identifier |-> id, list |-> list, exclude |-> x] :
        id \in {Str("x"), Re({"x", "y"})},
        list \in {Arr(<<"a", "b">>), Arr(<<"b">>), ReList({"a", "c"})},
        x \in BOOLEAN}

EvalListActions ==
    {ListAccessAction("R1", "menu", id, list) :
        id \in {"x", "y", "z"}, list \in {<<"a", "b", "c">>, <<"b", "a", "b">>}}

\* the holders a single list permission is bound to
EvalTargets == {"R1", "G1", "G2", "G3"}

InitListEval ==
    /\ \E target \in EvalTargets :
         /\ perms = <<[target |-> target, type |-> "menu", kind |-> "list", rules |-> <<>>,
                     middlewares |-> <<>>]>>
         /\ rolePerms = [r \in Roles |-> IF r = target THEN <<1>> ELSE <<>>]
         /\ groupPerms = [g \in Groups |-> IF g = target THEN <<1>> ELSE <<>>]
    /\ roleGroup = [r \in Roles |-> NoGroup]
    /\ groupRoles = [g \in Groups |-> <<>>]
    /\ acRoles = <<>>
    /\ res = NoRes

NextListEval ==
    \/ \E rule \in ListRulesFull : AddRule(1, rule)
    \/ \E action \in EvalListActions : CallGetAccessibleList(1, action)
    \/ \E action \in EvalListActions : CallValidate(1, action)
    \/ Return

SpecListEval == InitListEval /\ [][NextListEval]_vars

\* the list of a rule matches the item: membership in the string set, or the pattern
InRuleList(rule, item) ==
    IF rule.list.re THEN item \in rule.list.lang ELSE item \in Range(rule.list.arr)

\* rule by rule: a non-exclude rule adds the requested items it matches, an exclude rule
\* removes the accumulated items it matches
RECURSIVE RuleByRule(_, _, _)
RuleByRule(rules, action, acc) ==
    IF rules = <<>> THEN acc
    ELSE LET rule == Head(rules) IN
         IF ~ListRuleMatches(rule, action.parameters.identifier)
         THEN RuleByRule(Tail(rules), action, acc)
         ELSE IF rule.exclude
         THEN RuleByRule(Tail(rules), action, SelectSeq(acc, LAMBDA x : ~InRuleList(rule, x)))
         ELSE RuleByRule(Tail(rules), action,
                         acc \o SelectSeq(action.parameters.list, LAMBDA x : InRuleList(rule, x)))

\* C9: for a permission of a group or of a role without group, getAccessibleList is the
\* rule-by-rule accumulation over the identifier-matching rules in declared order
C9_ListAccumulation ==
    (/\ res.op = "list"
     /\ \/ IsGroup(perms[res.perm].target)
        \/ roleGroup[perms[res.perm].target] = NoGroup)
    => res.list = RuleByRule(perms[res.perm].rules, res.action, <<>>)

\* witness of C9: [{x,[a,b]}, {x,[b],exclude}] with requested [a,b,c] gives [a]
C9_Witness ==
    /\ res.op = "list"
    /\ perms[res.perm].rules = <<AllowList(Str("x"), Arr(<<"a", "b">>)),
                                 ExcludeList(Str("x"), Arr(<<"b">>))>>
    /\ res.action.parameters.list = <<"a", "b", "c">>
    /\ res.list = <<"a">>

-----------------------------------------------------------------------------
(* Rule combination along the chain G3 -> G2 -> G1 of inheritFrom *)

\* every holder gives its navigation permissions rules on a route of its own, so that
\* the holder a combined rule comes from can be told
ChainTargets == {"R1", "G1", "G2", "G3"}

ChainRoute == [t \in ChainTargets |->
                  IF t = "G1" THEN "/g1" ELSE IF t = "G2" THEN "/g2"
                  ELSE IF t = "G3" THEN "/g3" ELSE "/r1"]

ChainRule(t) == [route |-> Str(ChainRoute[t]), exclude |-> FALSE]

\* new RouteAccessPermission(target, []) on the role or on a group
NewChainRoutePermission ==
    \E target \in ChainTargets : NewPermission(target, "navigation", "route", <<>>, <<>>)

\* new ComponentAccessPermission(group, [rule]): a permission of another type
NewChainComponentPermission ==
    \E target \in Groups :
        NewPermission(target, "component", "component",
                      <<[identifier |-> Str("a"), actions |-> <<"view">>, exclude |-> FALSE]>>,
                      <<>>)

\* permission.addRule on a navigation permission
AddChainRule ==
    \E p \in 1..Len(perms) :
        /\ perms[p].kind = "route"
        /\ AddRule(p, ChainRule(perms[p].target))

NextRules ==
    \/ NewChainRoutePermission
    \/ NewChainComponentPermission
    \/ AddChainRule
    \/ \E g \in {"G1", "G3"} : GroupAssignRole(g, "R1")
    \/ \E p \in 1..Len(perms) : perms[p].target \in {"R1", "G3"} /\ CallGetRules(p)
    \/ Return

SpecRules == Init /\ [][NextRules]_vars

\* a is a subsequence of b
RECURSIVE IsSubseq(_, _)
IsSubseq(a, b) ==
    IF a = <<>> THEN TRUE
    ELSE IF b = <<>> THEN FALSE
    ELSE IF Head(a) = Head(b) THEN IsSubseq(Tail(a), Tail(b))
    ELSE IsSubseq(a, Tail(b))

\* the own rules of the permissions of the type held by group g, in the order held
OwnRulesOfGroup(g, type) ==
    LET ps == GroupGetPermissions(g, type)
    IN Flat([i \in 1..Len(ps) |-> perms[ps[i]].rules])

\* C11: getRules() of a permission bound to G3, or to a role of G3, holds the rules of
\* the same-type permissions of G1, then of G2, then the nearer rules (G3's for a role's
\* permission, then the permission's own), in that order
C11_WalksWholeChain ==
    (/\ res.op = "rules"
     /\ \/ perms[res.perm].target = "G3"
        \/ IsRole(perms[res.perm].target) /\ roleGroup[perms[res.perm].target] = "G3")
    => LET type == perms[res.perm].type
           nearer == IF IsRole(perms[res.perm].target)
                     THEN OwnRulesOfGroup("G3", type) ELSE <<>>
       IN IsSubseq(OwnRulesOfGroup("G1", type) \o OwnRulesOfGroup("G2", type)
                       \o nearer \o perms[res.perm].rules,
                   res.rules)

-----------------------------------------------------------------------------
(* checkPermissions for a role of G2, the group that inherits from G1 *)

InheritTargets == {"R1", "G1", "G2"}

NewInheritRoutePermission ==
    \E target \in InheritTargets, rules \in ACRouteRuleLists :
        NewPermission(target, "navigation", "route", rules, <<>>)

InheritActions == {RouteAccessAction("R1", route) : route \in {"a", "b"}}

NextInherit ==
    \/ NewInheritRoutePermission
    \/ GroupAssignRole("G2", "R1")
    \/ AddRole("R1")
    \/ \E action \in InheritActions, hasOnFailure \in BOOLEAN :
          CheckPermissions(action, hasOnFailure)
    \/ Return

SpecInherit == Init /\ [][NextInherit]_vars

\* some rule of permission p that applies to the request is an exclude rule
ExcludedBy(p, action) ==
    /\ perms[p].type = action.type
    /\ \E i \in 1..Len(perms[p].rules) :
          perms[p].rules[i].exclude /\ RuleApplies(perms[p].kind, perms[p].rules[i], action)

\* C13: a registered role of a group A that inherits from group B is granted what a
\* permission held by B allows, unless a rule of A or of the role excludes it
C13_InheritedGroupGrants ==
    (/\ res.op = "check"
     /\ GetRoleByCode(res.action.roleCode) # NoGroup
     /\ roleGroup[res.action.roleCode] # NoGroup
     /\ InheritFrom[roleGroup[res.action.roleCode]] # NoGroup
     /\ LET role == res.action.roleCode
            A == roleGroup[role]
            B == InheritFrom[A]
        IN /\ \E i \in 1..Len(groupPerms[B]) :
                 /\ perms[groupPerms[B][i]].type = res.action.type
                 /\ Validate(groupPerms[B][i], res.action).status # "failed"
           /\ \A i \in 1..Len(groupPerms[A]) : ~ExcludedBy(groupPerms[A][i], res.action)
           /\ \A i \in 1..Len(rolePerms[role]) : ~ExcludedBy(rolePerms[role][i], res.action))
    => (Len(res.calls) = 1 /\ res.calls[1].cb = "onSuccess")

-----------------------------------------------------------------------------
(* The callbacks of checkPermissions *)

\* C14: a checkPermissions call given both callbacks has invoked exactly one of them,
\* exactly once, when it returns
C14_ExactlyOneCallback ==
    (res.op = "check" /\ res.hasOnFailure)
    => /\ Len(res.calls) = 1
       /\ res.calls[1].cb \in {"onSuccess", "onFailure"}

\* witness of C14: a permission was validated, failed, and onFailure alone was invoked
C14_Witness ==
    /\ res.op = "check" /\ res.hasOnFailure
    /\ res.validated # <<>>
    /\ res.calls = <<Call("onFailure", res.validated[1],
                          Validate(res.validated[1], res.action))>>
    /\ Validate(res.validated[1], res.action).status = "failed"

\* C15: for a role code of no registered role, checkPermissions invokes onFailure with the
\* failed "Role not found." message that carries the action and no target, validates no
\* permission and does not invoke onSuccess
C15_RoleNotFound ==
    (res.op = "check" /\ ~Includes(acRoles, res.action.roleCode))
    => /\ res.validated = <<>>
       /\ \A i \in 1..Len(res.calls) : res.calls[i].cb # "onSuccess"
       /\ res.hasOnFailure =>
             res.calls = <<[cb |-> "onFailure", permission |-> 0,
                            message |-> [status |-> "failed", message |-> <<"Role not found.">>,
                                         target |-> "", action |-> res.action]]>>

\* witness of C15: the role exists and holds a permission that allows the route, but it
\* was never added to the AccessControl
C15_Witness ==
    /\ res.op = "check" /\ res.hasOnFailure
    /\ acRoles = <<>>
    /\ res.action.type = "navigation"
    /\ \E i \in 1..Len(rolePerms[res.action.roleCode]) :
          LET p == rolePerms[res.action.roleCode][i]
          IN perms[p].type = "navigation" /\ Validate(p, res.action).status # "failed"
    /\ Len(res.calls) = 1 /\ res.calls[1].cb = "onFailure"

-----------------------------------------------------------------------------
(* validate of permissions of every class against actions of every type *)

\* the middleware lists the navigation permissions are constructed with
TypeMiddlewareLists == {<<>>, <<"m1", "grant", "m2">>}

NewTypeRoutePermission ==
    \E rules \in {<<>>, <<Exclude(Str("a"))>>}, middlewares \in TypeMiddlewareLists :
        NewPermission("R1", "navigation", "route", rules, middlewares)

NewTypeComponentPermission ==
    \E rules \in {<<>>, <<[identifier |-> Str("a"), actions |-> <<"view">>, exclude |-> FALSE]>>} :
        NewPermission("G1", "component", "component", rules, <<>>)

\* new ListAccessPermission(target, "list", rules), new MenuAccessPermission(target, rules)
\* and new DropdownAccessPermission(target, rules)
NewTypeListPermission ==
    \E type \in {"list", "menu", "dropdown"},
       rules \in {<<>>, <<[identifier |-> Str("x"), list |-> Arr(<<"a", "b">>), exclude |-> FALSE]>>} :
        NewPermission("R1", type, "list", rules, <<>>)

\* one action of each class: RouteAccessAction, ComponentAccessAction, ListAccessAction,
\* MenuAccessAction and DropdownAccessAction
TypeActions ==
    {RouteAccessAction("R1", "a"), ComponentAccessAction("R1", "a", "view")}
    \cup {[roleCode |-> "R1", type |-> type,
           parameters |-> [identifier |-> "x", list |-> <<"a", "b", "c">>]] :
             type \in {"list", "menu", "dropdown"}}

NextTypes ==
    \/ NewTypeRoutePermission
    \/ NewTypeComponentPermission
    \/ NewTypeListPermission
    \/ \E p \in 1..Len(perms), action \in TypeActions : CallValidate(p, action)
    \/ Return

SpecTypes == Init /\ [][NextTypes]_vars

\* C17: validate of a permission of any class returns the failed type-mismatch message
\* exactly when the action's type differs from the permission's type, and then no rule was
\* tested and no middleware was invoked
C17_TypeCheckFirst ==
    (res.op = "validate")
    => IF res.action.type # perms[res.perm].type
       THEN /\ res.result = [status |-> "failed",
                             message |-> <<"action type doesn't match the permission type">>,
                             target |-> perms[res.perm].target,
                             action |-> res.action]
            /\ res.evaluated = 0
            /\ res.matchedRules = <<>>
            /\ res.middlewareCalls = <<>>
       ELSE res.result.message # <<"action type doesn't match the permission type">>

\* witness of C17: a menu permission with a rule on the identifier rejected a dropdown
\* action on that identifier
C17_Witness ==
    /\ res.op = "validate"
    /\ perms[res.perm].type = "menu"
    /\ res.action.type = "dropdown"
    /\ perms[res.perm].rules # <<>>
    /\ res.result.status = "failed"

\* C18: a navigation validate that passes the type check invokes every middleware once,
\* in registration order, with (permission, action); the matched rules and the verdict are
\* those of the rules the permission had when validate was called, whatever the
\* middlewares did to the permission, and the middlewares run when the verdict is a denial
C18_MiddlewaresAfterSelection ==
    [][(/\ res.op = "none"
        /\ res'.op = "validate"
        /\ perms[res'.perm].kind = "route"
        /\ res'.action.type = "navigation")
       => LET p == res'.perm
              rules == perms[p].rules
              middlewares == perms[p].middlewares
              matched == MatchedAfterExclude("route", rules, res'.action)
          IN /\ Len(res'.middlewareCalls) = Len(middlewares)
             /\ \A i \in 1..Len(middlewares) :
                   res'.middlewareCalls[i] = [middleware |-> middlewares[i], permission |-> p,
                                              action |-> res'.action]
             /\ res'.matchedRules = RulesAt(rules, matched, 1)
             /\ (res'.result.status = "failed") <=> (matched = {})]_vars

\* witness of C18: the three middlewares ran on a denial; one of them added a rule that
\* allows the route, and the verdict stayed the denial decided before
C18_Witness ==
    /\ res.op = "validate"
    /\ perms[res.perm].kind = "route"
    /\ Len(res.middlewareCalls) = 3
    /\ res.middlewareCalls[1].middleware = "m1"
    /\ res.middlewareCalls[3].middleware = "m2"
    /\ res.result.status = "failed"
    /\ res.result.message = MsgRouteDenied
    /\ RouteGetRulesByAction(perms[res.perm].rules, res.action.parameters.route, <<>>) # <<>>

\* the identifier pattern of the rule matches the requested identifier
IdentifierMatches(rule, identifier) ==
    IF rule.identifier.re THEN identifier \in rule.identifier.lang
    ELSE rule.identifier.str = identifier

\* C19: validate of a list permission, for an action of its type, fails exactly when no
\* rule's identifier pattern matches the action's identifier, exclude rules included, and
\* whatever getAccessibleList returns for the action
C19_ListValidateByIdentifier ==
    (/\ res.op = "validate"
     /\ perms[res.perm].kind = "list"
     /\ res.action.type = perms[res.perm].type)
    => LET rules == perms[res.perm].rules
           some == \E i \in 1..Len(rules) :
                      IdentifierMatches(rules[i], res.action.parameters.identifier)
       IN IF some
          THEN res.result = Undefined
          ELSE res.result = [status |-> "failed",
                             message |-> <<"No access permission for", res.action.type,
                                           res.action.parameters.identifier>>,
                             target |-> perms[res.perm].target,
                             action |-> res.action]

\* witness of C19: every rule on the identifier is an exclude rule, getAccessibleList
\* returns no item for the action, and validate passes
C19_Witness ==
    /\ res.op = "validate"
    /\ perms[res.perm].kind = "list"
    /\ perms[res.perm].rules # <<>>
    /\ \A i \in 1..Len(perms[res.perm].rules) :
          /\ perms[res.perm].rules[i].exclude
          /\ IdentifierMatches(perms[res.perm].rules[i], res.action.parameters.identifier)
    /\ GetAccessibleList(res.perm, res.action) = <<>>
    /\ res.result = Undefined

-----------------------------------------------------------------------------
(* Rule evaluation of one component permission *)

\* /^settings-.*/ over the identifiers requested
SettingsAny == Re({"settings-password", "settings-profile"})

ComponentRulesFull ==
    {[identifier |-> id, actions |-> actions, exclude |-> x] :
        id \in {SettingsAny, Str("settings-password")},
        actions \in {<<"view", "edit">>, <<"edit">>, <<"view">>},
        x \in BOOLEAN}

ComponentActions ==
    {ComponentAccessAction("R1", identifier, action) :
        identifier \in {"settings-password", "settings-profile", "dashboard"},
        action \in {"view", "edit"}}

\* one ComponentAccessPermission without rules, bound to the role or to the group
InitComponent ==
    /\ \E target \in ACTargets :
         /\ perms = <<[target |-> target, type |-> "component", kind |-> "component",
                      rules |-> <<>>, middlewares |-> <<>>]>>
         /\ rolePerms = [r \in Roles |-> IF r = target THEN <<1>> ELSE <<>>]
         /\ groupPerms = [g \in Groups |-> IF g = target THEN <<1>> ELSE <<>>]
    /\ roleGroup = [r \in Roles |-> NoGroup]
    /\ groupRoles = [g \in Groups |-> <<>>]
    /\ acRoles = <<>>
    /\ res = NoRes

NextComponent ==
    \/ \E rule \in ComponentRulesFull : AddRule(1, rule)
    \/ \E action \in ComponentActions : CallValidate(1, action)
    \/ Return

SpecComponent == InitComponent /\ [][NextComponent]_vars

\* the rule applies to the request: identifier pattern and actions list
ComponentApplies(rule, action) ==
    /\ IdentifierMatches(rule, action.parameters.identifier)
    /\ action.parameters.action \in Range(rule.actions)

\* the README rules on the settings components
ReadmeSettingsRules ==
    << [identifier |-> SettingsAny, actions |-> <<"view", "edit">>, exclude |-> FALSE],
       [identifier |-> Str("settings-password"), actions |-> <<"edit">>, exclude |-> TRUE] >>

\* C20: the matched set of a component permission is the applying non-exclude rules after
\* the last applying exclude rule, where a rule applies when its identifier pattern
\* matches and its actions hold the requested action; validate fails iff the set is
\* empty. With the README rules, view on settings-password passes and edit fails.
C20_ComponentRuleApplies ==
    (res.op = "validate" /\ perms[res.perm].kind = "component"
        /\ res.action.type = "component")
    => LET rules == perms[res.perm].rules
           excl == {i \in 1..Len(rules) : rules[i].exclude /\ ComponentApplies(rules[i], res.action)}
           idx == {i \in 1..Len(rules) :
                      /\ ComponentApplies(rules[i], res.action)
                      /\ ~rules[i].exclude
                      /\ \A j \in excl : j < i}
       IN /\ res.matchedRules = RulesAt(rules, idx, 1)
          /\ (res.result.status = "failed") <=> (idx = {})
          /\ (rules = ReadmeSettingsRules
                /\ res.action.parameters.identifier = "settings-password")
             => IF res.action.parameters.action = "view"
                THEN res.result = Undefined
                ELSE res.result.status = "failed"

\* witness of C20: with the README rules, view on settings-password passed although the
\* exclude rule matches the identifier
C20_Witness ==
    /\ res.op = "validate"
    /\ perms[res.perm].rules = ReadmeSettingsRules
    /\ res.action.parameters.identifier = "settings-password"
    /\ res.action.parameters.action = "view"
    /\ res.result = Undefined
    /\ res.matchedRules = <<ReadmeSettingsRules[1]>>

-----------------------------------------------------------------------------
(* Rule evaluation of one navigation or one component permission without regard to order *)

\* one permission without rules, a RouteAccessPermission or a ComponentAccessPermission
InitMatch ==
    /\ \E kind \in {"route", "component"} :
         perms = <<[target |-> "R1", type |-> IF kind = "route" THEN "navigation" ELSE "component",
                    kind |-> kind, rules |-> <<>>, middlewares |-> <<>>]>>
    /\ rolePerms = [r \in Roles |-> IF r = "R1" THEN <<1>> ELSE <<>>]
    /\ groupPerms = [g \in Groups |-> <<>>]
    /\ roleGroup = [r \in Roles |-> NoGroup]
    /\ groupRoles = [g \in Groups |-> <<>>]
    /\ acRoles = <<>>
    /\ res = NoRes

AddMatchRule ==
    \E rule \in NavRulesFull \cup ComponentRulesFull :
        /\ (perms[1].kind = "route") <=> (rule \in NavRulesFull)
        /\ AddRule(1, rule)

ValidateMatch ==
    \E action \in RouteActions \cup ComponentActions :
        /\ action.type = perms[1].type
        /\ CallValidate(1, action)

NextMatch ==
    \/ AddMatchRule
    \/ ValidateMatch
    \/ Return

SpecMatch == InitMatch /\ [][NextMatch]_vars

\* the pattern of the rule (and its actions list, for a component rule) matches the request
RequestMatches(kind, rule, action) ==
    IF kind = "route"
    THEN IF rule.route.re THEN action.parameters.route \in rule.route.lang
         ELSE rule.route.str = action.parameters.route
    ELSE ComponentApplies(rule, action)

\* validate fails on the rule list
FailsOn(kind, rules, action) ==
    IF kind = "route"
    THEN Len(RouteGetRulesByAction(rules, action.parameters.route, <<>>)) = 0
    ELSE Len(ComponentGetRulesByAction(rules, action.parameters.identifier,
                                       action.parameters.action, <<>>)) = 0

\* C21: without exclude rules the matched set is exactly the rules that match the request,
\* and every permutation of the rule list gives the verdict validate returned
C21_NoExcludeOrderFree ==
    (/\ res.op = "validate"
     /\ res.action.type = perms[res.perm].type
     /\ \A i \in 1..Len(perms[res.perm].rules) : ~perms[res.perm].rules[i].exclude)
    => LET kind == perms[res.perm].kind
           rules == perms[res.perm].rules
           idx == {i \in 1..Len(rules) : RequestMatches(kind, rules[i], res.action)}
       IN /\ res.matchedRules = RulesAt(rules, idx, 1)
          /\ (res.result.status = "failed") <=> (idx = {})
          /\ \A pi \in Permutations(1..Len(rules)) :
                FailsOn(kind, [i \in 1..Len(rules) |-> rules[pi[i]]], res.action)
                    <=> (res.result.status = "failed")

\* witness of C21: three rules without exclude, the first and the last match the route
C21_Witness ==
    /\ res.op = "validate"
    /\ perms[res.perm].kind = "route"
    /\ perms[res.perm].rules = <<Allow(Re({"a", "b"})), Allow(Str("b")), Allow(Str("a"))>>
    /\ res.action.parameters.route = "a"
    /\ res.matchedRules = <<Allow(Re({"a", "b"})), Allow(Str("a"))>>
    /\ res.result = Undefined

-----------------------------------------------------------------------------
(* Group membership of two roles over the three groups *)

NextMembership ==
    \/ \E g \in Groups, r \in Roles : GroupAssignRole(g, r)
    \/ \E r \in Roles, g \in Groups : RoleAssignGroup(r, g)
    \/ AddRole("R1")
    \/ Return

SpecMembership == Init /\ [][NextMembership]_vars

\* C22: every role is in the role list of at most one group, once, and that group is
\* the role's group; Group.assignRole(g, r) leaves r in the list of g only, with
\* getGroup() = g, whichever group held it before
C22_SingleMembership ==
    [][/\ \A r \in Roles :
            /\ Cardinality({g \in Groups : Includes(groupRoles'[g], r)}) <= 1
            /\ \A g \in Groups :
                  Includes(groupRoles'[g], r)
                  => /\ roleGroup'[r] = g
                     /\ Cardinality({i \in 1..Len(groupRoles'[g]) : groupRoles'[g][i] = r}) = 1
       /\ \A g \in Groups, r \in Roles :
            GroupAssignRole(g, r)
            => /\ roleGroup'[r] = g
               /\ \A h \in Groups : Includes(groupRoles'[h], r) <=> (h = g)]_vars

\* witness of C22: both roles went through Group.assignRole and ended in the list of G2
\* after R1 was given another group
C22_Witness ==
    /\ groupRoles["G2"] = <<"R2", "R1">>
    /\ groupRoles["G1"] = <<>>
    /\ roleGroup["R1"] = "G2"
    /\ Includes(acRoles, "R1")

\* C23: Role.assignGroup(g) on a role without group sets its group to g; on a role of
\* another group it throws and leaves the role's group and every role list as they were
C23_AssignGroupThrows ==
    [][\A r \in Roles, g \in Groups :
          RoleAssignGroup(r, g)
          => IF roleGroup[r] = NoGroup
             THEN roleGroup'[r] = g /\ res' = NoRes
             ELSE roleGroup[r] # g
                  => /\ res'.op = "assignGroup" /\ res'.thrown
                     /\ res'.message = <<"role", r, "has already assigned to another group:",
                                         roleGroup[r]>>
                     /\ roleGroup' = roleGroup
                     /\ groupRoles' = groupRoles]_vars

\* witness of C23: assignGroup(G2) threw on a role that Group.assignRole had put in G1
C23_Witness ==
    /\ res.op = "assignGroup"
    /\ res.thrown
    /\ res.group = "G2"
    /\ roleGroup[res.role] = "G1"
    /\ Includes(groupRoles["G1"], res.role)

-----------------------------------------------------------------------------
(* Permission lists of a role and of its group *)

SetupTargets == {"R1", "G1"}
SetupTypes == {"navigation", "component"}

NewSetupPermission ==
    \E target \in SetupTargets, type \in SetupTypes :
        NewPermission(target, type, IF type = "navigation" THEN "route" ELSE "component",
                      <<>>, <<>>)

NextSetup ==
    \/ NewSetupPermission
    \/ \E p \in 1..Len(perms) : AssignPermissionToRole("R1", p)
    \/ \E p \in 1..Len(perms) : AssignPermissionToGroup("G1", p)
    \/ GroupAssignRole("G1", "R1")
    \/ RoleAssignGroup("R1", "G1")
    \/ \E type \in SetupTypes \cup {NoType} : CallGetPermissions("R1", type)
    \/ Return

SpecSetup == Init /\ [][NextSetup]_vars

\* the permissions of the list that have the type, in the order of the list
OfType(list, type) == SelectSeq(list, LAMBDA p : perms[p].type = type)

\* C24: Role.getPermissions(type) is the permissions of the type of the role's group, in
\* the order the group holds them, followed by the role's own of the type, in the order
\* the role holds them; without a group, the role's own only
C24_GroupFirst ==
    (res.op = "permissions" /\ res.type # NoType)
    => IF roleGroup[res.role] = NoGroup
       THEN res.list = OfType(rolePerms[res.role], res.type)
       ELSE res.list = OfType(groupPerms[roleGroup[res.role]], res.type)
                       \o OfType(rolePerms[res.role], res.type)

\* witness of C24: the role's permission was constructed before the group's, the group
\* holds a permission of another type too, and the group's permission comes first
C24_Witness ==
    /\ res.op = "permissions" /\ res.type = "component"
    /\ roleGroup[res.role] = "G1"
    /\ Len(res.list) = 2
    /\ res.list[1] > res.list[2]
    /\ perms[res.list[1]].target = "G1"
    /\ perms[res.list[2]].target = res.role
    /\ \E i \in 1..Len(groupPerms["G1"]) : perms[groupPerms["G1"][i]].type = "navigation"

\* a sequence without repeated elements
NoDuplicates(list) == \A i, j \in 1..Len(list) : list[i] = list[j] => i = j

\* C25: no Permission object is twice in the permission list of a group, in the own list
\* of a role, or in what Role.getPermissions() returns
C25_NoDuplicatePermissions ==
    /\ \A g \in Groups : NoDuplicates(groupPerms[g])
    /\ \A r \in Roles : NoDuplicates(rolePerms[r])
    /\ res.op = "permissions" => NoDuplicates(res.list)

-----------------------------------------------------------------------------
(* When onSuccess is invoked *)

\* the callback was invoked by the checkPermissions call that returned
Invoked(cb) == \E i \in 1..Len(res.calls) : res.calls[i].cb = cb

\* the permissions of the type that the role or its group holds
HeldOfType(r, type) ==
    {p \in 1..Len(perms) :
        /\ perms[p].type = type
        /\ \/ Includes(rolePerms[r], p)
           \/ roleGroup[r] # NoGroup /\ Includes(groupPerms[roleGroup[r]], p)}

-----------------------------------------------------------------------------
(* The position of an exclude rule in list accumulation *)

\* the positions of the rules of the permission that match the identifier of the action
\* and list the item
ListingRules(p, action, item) ==
    {i \in 1..Len(perms[p].rules) :
        /\ ListRuleMatches(perms[p].rules[i], action.parameters.identifier)
        /\ InRuleList(perms[p].rules[i], item)}

\* the last such position, 0 when there is none
LastListing(p, action, item) ==
    LET S == ListingRules(p, action, item)
    IN IF S = {} THEN 0 ELSE CHOOSE i \in S : \A j \in S : j <= i

C30_WitnessOnlyExclude ==
    /\ res.op = "list"
    /\ perms[res.perm].rules = <<ExcludeList(Str("x"), Arr(<<"b">>))>>
    /\ res.action.parameters.identifier = "x"
    /\ res.action.parameters.list = <<"a", "b", "c">>
    /\ res.list = <<>>

-----------------------------------------------------------------------------
(* checkPermissions for one role among other roles and groups *)

OthersTargets == {"R1", "R2", "G1"}
OthersActions == {RouteAccessAction("R1", "a")}

\* the permissions of R1 exclude the route; those of G1 and of R2 allow it, and
\* those of R2 get further rules from addRule
NewOthersPermission ==
    \E target \in OthersTargets :
        NewPermission(target, "navigation", "route",
                      IF target = "R1" THEN <<Exclude(Str("a"))>> ELSE <<Allow(Str("a"))>>, <<>>)

NextOthers ==
    \/ NewOthersPermission
    \/ \E p \in 1..Len(perms) : perms[p].target = "R2" /\ AddRule(p, Exclude(Str("a")))
    \/ \E p \in 1..Len(perms) : perms[p].target = "R1" /\ AssignPermissionToRole("R2", p)
    \/ GroupAssignRole("G1", "R1")
    \/ \E g \in {"G1", "G2"} : GroupAssignRole(g, "R2")
    \/ AddRole("R1")
    \/ \E action \in OthersActions : CheckPermissions(action, TRUE)
    \/ Return

SpecOthers == Init /\ [][NextOthers]_vars

\* the permissions held by the role, by its group or by a group its group inherits from
HeldByChain(r) ==
    {p \in 1..Len(perms) :
        \/ Includes(rolePerms[r], p)
        \/ \E g \in GroupChain(roleGroup[r]) : Includes(groupPerms[g], p)}

\* a step between two configurations that leaves alone the role's own permission list and
\* group, the permission lists of the groups of its chain, the rules of every permission
\* these hold, and whether the role is registered
OutsideOf(r) ==
    /\ res = NoRes /\ res' = NoRes
    /\ rolePerms'[r] = rolePerms[r]
    /\ roleGroup'[r] = roleGroup[r]
    /\ \A g \in GroupChain(roleGroup[r]) : groupPerms'[g] = groupPerms[g]
    /\ \A p \in HeldByChain(r) : perms'[p] = perms[p]
    /\ Includes(acRoles', r) <=> Includes(acRoles, r)

\* C29: a change of configuration outside the role and its group chain (rules, permissions
\* or memberships of other roles and of other groups) changes the callback invoked and the
\* message passed by no checkPermissions call for an action of the role
C29_OthersDoNotMatter ==
    [][OutsideOf("R1")
       => \A action \in OthersActions, hasOnFailure \in BOOLEAN :
             CheckResult(action, hasOnFailure)' = CheckResult(action, hasOnFailure)]_vars

\* witness of C29: the check for R1 is denied by R1's own exclude rule while R2, a member
\* of the same group, holds a newer permission that allows the route
C29_Witness ==
    /\ res.op = "check" /\ res.hasOnFailure
    /\ res.calls # <<>> /\ res.calls[1].cb = "onFailure"
    /\ res.validated # <<>>
    /\ roleGroup["R1"] = "G1" /\ roleGroup["R2"] = "G1"
    /\ \E p \in 1..Len(perms) :
          /\ p > res.validated[1]
          /\ perms[p].target = "R2"
          /\ perms[p].rules = <<Allow(Str("a"))>>

-----------------------------------------------------------------------------
(* Calls on permissions that a role and its group share *)

CallsTargets == {"R1", "G1"}
CallsActions ==
    {RouteAccessAction("R1", "a"), ListAccessAction("R1", "menu", "x", <<"a", "b", "c">>)}

NewCallsPermission ==
    \E target \in CallsTargets :
        \/ NewPermission(target, "navigation", "route", <<Allow(Str("a"))>>, <<>>)
        \/ NewPermission(target, "menu", "list",
                         <<AllowList(Str("x"), Arr(<<"a", "b">>))>>, <<>>)

NextCalls ==
    \/ NewCallsPermission
    \/ \E p \in 1..Len(perms) : AssignPermissionToRole("R1", p)
    \/ \E p \in 1..Len(perms) : AssignPermissionToGroup("G1", p)
    \/ GroupAssignRole("G1", "R1")
    \/ RoleAssignGroup("R1", "G1")
    \/ AddRole("R1")
    \/ \E p \in 1..Len(perms) : CallGetRules(p)
    \/ \E p \in 1..Len(perms), action \in CallsActions : CallGetAccessibleList(p, action)
    \/ \E p \in 1..Len(perms), action \in CallsActions : CallValidate(p, action)
    \/ \E action \in CallsActions : CheckPermissions(action, TRUE)
    \/ Return

SpecCalls == Init /\ [][NextCalls]_vars

\* C27: every call of getRules, validate, getAccessibleList and checkPermissions returns:
\* none re-enters the call of a permission that is already on the call stack
C27_EveryCallReturns ==
    res.op \in {"rules", "list"} => ~res.overflow

-----------------------------------------------------------------------------
(* The same call made twice *)

\* string routes and RegExp routes without and with the g flag
RepeatRules ==
    {[route |-> route, exclude |-> x] :
        route \in {Str("a"), Re({"a", "b"}), ReG({"a", "b"})}, x \in BOOLEAN}

RepeatActions == {RouteAccessAction("R1", route) : route \in {"a", "c"}}

\* one RouteAccessPermission of the registered role, without rules and with a middleware
\* that only observes
InitRepeat ==
    /\ perms = <<[target |-> "R1", type |-> "navigation", kind |-> "route", rules |-> <<>>,
                  middlewares |-> <<"m1">>]>>
    /\ rolePerms = [r \in Roles |-> IF r = "R1" THEN <<1>> ELSE <<>>]
    /\ groupPerms = [g \in Groups |-> <<>>]
    /\ roleGroup = [r \in Roles |-> NoGroup]
    /\ groupRoles = [g \in Groups |-> <<>>]
    /\ acRoles = <<"R1">>
    /\ res = NoRes

NextRepeat ==
    \/ \E rule \in RepeatRules : AddRule(1, rule)
    \/ \E action \in RepeatActions : CallValidate(1, action)
    \/ \E action \in RepeatActions : CheckPermissions(action, TRUE)
    \/ Return

SpecRepeat == InitRepeat /\ [][NextRepeat]_vars

\* C26: when validate or checkPermissions has returned, the same call made again, with
\* nothing done in between, gives the same verdict and message and invokes the same callback
C26_SameCallSameResult ==
    /\ res.op = "validate" => Validate(res.perm, res.action) = res.result
    /\ res.op = "check" => CheckResult(res.action, res.hasOnFailure).calls = res.calls

====
